---- MODULE Spec2Model ----
(***************************************************************************)
(* Medicine Mismatch Detector: the two Streamlit scripts app.py and        *)
(* Home.py.  A name is a sequence of one-character strings.  A script run  *)
(* (one rerun of the page that the sidebar selects) is one action.         *)
(***************************************************************************)
EXTENDS Integers, Sequences, FiniteSets, TLC

(***************************************************************************)
(* Characters, in code point order: Python compares and sorts strings by   *)
(* code point, and str.lower / str.capitalize map between the two letter   *)
(* ranges.                                                                 *)
(***************************************************************************)
CharSeq ==
  << " ", ",",
     "A", "B", "C", "D", "E", "F", "G", "H", "I", "J", "K", "L", "M",
     "N", "O", "P", "Q", "R", "S", "T", "U", "V", "W", "X", "Y", "Z",
     "a", "b", "c", "d", "e", "f", "g", "h", "i", "j", "k", "l", "m",
     "n", "o", "p", "q", "r", "s", "t", "u", "v", "w", "x", "y", "z" >>

\* the position of each character, computed once
OrdOf ==
  [c \in {CharSeq[i] : i \in 1..Len(CharSeq)} |->
     CHOOSE i \in 1..Len(CharSeq) : CharSeq[i] = c]

Ord(c) == OrdOf[c]

IsUpper(c) == Ord(c) \in 3..28

IsLower(c) == Ord(c) \in 29..54

\* str.lower() on one character
LowerChar(c) == IF IsUpper(c) THEN CharSeq[Ord(c) + 26] ELSE c

\* str.upper() on one character
UpperChar(c) == IF IsLower(c) THEN CharSeq[Ord(c) - 26] ELSE c

\* str.lower()
str_lower(s) == [i \in 1..Len(s) |-> LowerChar(s[i])]

\* str.capitalize(): first character upper-cased, the rest lower-cased
str_capitalize(s) ==
  [i \in 1..Len(s) |-> IF i = 1 THEN UpperChar(s[i]) ELSE LowerChar(s[i])]

RECURSIVE lstrip(_)
lstrip(s) == IF s # << >> /\ Head(s) = " " THEN lstrip(Tail(s)) ELSE s

RECURSIVE rstrip(_)
rstrip(s) ==
  IF s # << >> /\ s[Len(s)] = " " THEN rstrip(SubSeq(s, 1, Len(s) - 1)) ELSE s

\* str.strip()
str_strip(s) == rstrip(lstrip(s))

\* str.split(sep): the pieces between the separators, empty pieces kept
RECURSIVE str_split(_, _)
str_split(s, sep) ==
  IF \E i \in 1..Len(s) : s[i] = sep
  THEN LET i == CHOOSE k \in 1..Len(s) :
                  s[k] = sep /\ \A j \in 1..(k - 1) : s[j] # sep
       IN  << SubSeq(s, 1, i - 1) >> \o str_split(SubSeq(s, i + 1, Len(s)), sep)
  ELSE << s >>

\* str.split(): the whitespace-delimited tokens, no empty token
split_ws(s) ==
  LET parts == str_split(s, " ")
  IN  SelectSeq(parts, LAMBDA p : p # << >>)

\* s < t in Python's string order
RECURSIVE str_lt(_, _)
str_lt(s, t) ==
  IF t = << >> THEN FALSE
  ELSE IF s = << >> THEN TRUE
  ELSE IF Head(s) # Head(t) THEN Ord(Head(s)) < Ord(Head(t))
  ELSE str_lt(Tail(s), Tail(t))

\* insertion of x into a sorted list, after the entries equal to it
RECURSIVE insert_sorted(_, _)
insert_sorted(x, l) ==
  IF l = << >> THEN << x >>
  ELSE IF str_lt(x, Head(l)) THEN << x >> \o l
  ELSE << Head(l) >> \o insert_sorted(x, Tail(l))

\* sorted(tokens)
RECURSIVE sorted_tokens(_)
sorted_tokens(l) ==
  IF l = << >> THEN << >>
  ELSE insert_sorted(l[Len(l)], sorted_tokens(SubSeq(l, 1, Len(l) - 1)))

\* " ".join(tokens)
RECURSIVE join_spaces(_)
join_spaces(l) ==
  IF l = << >> THEN << >>
  ELSE IF Len(l) = 1 THEN l[1]
  ELSE l[1] \o << " " >> \o join_spaces(Tail(l))

Max(a, b) == IF a >= b THEN a ELSE b

RECURSIVE Gcd(_, _)
Gcd(a, b) == IF b = 0 THEN a ELSE Gcd(b, a % b)

(***************************************************************************)
(* A score is the exact rational num/den in lowest terms; the library      *)
(* returns the nearest double, and for the thresholds 60, 70, 90 and 95    *)
(* the double and the rational compare alike.                              *)
(***************************************************************************)
MkScore(n, d) ==
  LET g == Gcd(n, d) IN [num |-> n \div g, den |-> d \div g]

ZeroScore == MkScore(0, 1)

ScoreGE(a, k) == a.num >= k * a.den

ScoreGT(a, k) == a.num > k * a.den

ScoreLess(a, b) == a.num * b.den < b.num * a.den

\* one row of the longest-common-subsequence table
RECURSIVE lcs_row(_, _, _, _)
lcs_row(prev, c, t, cur) ==
  LET j == Len(cur)
  IN  IF j > Len(t) THEN cur
      ELSE lcs_row(prev, c, t,
             Append(cur, IF c = t[j] THEN prev[j] + 1
                         ELSE Max(prev[j + 1], cur[j])))

RECURSIVE lcs_rows(_, _, _)
lcs_rows(prev, s, t) ==
  IF s = << >> THEN prev
  ELSE lcs_rows(lcs_row(prev, Head(s), t, << 0 >>), Tail(s), t)

\* length of the longest common subsequence of s and t
lcs_len(s, t) ==
  lcs_rows([j \in 1..(Len(t) + 1) |-> 0], s, t)[Len(t) + 1]

\* rapidfuzz.fuzz.ratio: the normalized Indel similarity, scaled to 0..100
fuzz_ratio(s, t) ==
  IF Len(s) + Len(t) = 0 THEN MkScore(100, 1)
  ELSE MkScore(200 * lcs_len(s, t), Len(s) + Len(t))

\* rapidfuzz.fuzz.token_sort_ratio: ratio of the token-sorted strings
fuzz_token_sort_ratio(s, t) ==
  fuzz_ratio(join_spaces(sorted_tokens(split_ws(s))),
             join_spaces(sorted_tokens(split_ws(t))))

(***************************************************************************)
(* Data frames.  A frame is [columns, rows]: the column labels in order    *)
(* and the rows, each a sequence of cells aligned with the labels.  A cell *)
(* is a string or NaN (a missing value).                                   *)
(***************************************************************************)
NaN == << "NaN" >>

\* astype(str) on one cell: a missing value becomes the string "nan"
cell_str(c) == IF c = NaN THEN << "n", "a", "n" >> ELSE c

Frame(cols, rows) == [columns |-> cols, rows |-> rows]

\* df.empty
frame_empty(df) == df.rows = << >> \/ df.columns = << >>

\* the positions of the columns labelled col
col_positions(df, col) == {i \in 1..Len(df.columns) : df.columns[i] = col}

\* df[col] when exactly one column carries the label: its cells in row order
column(df, col) ==
  LET i == CHOOSE k \in col_positions(df, col) : TRUE
  IN  [r \in 1..Len(df.rows) |-> df.rows[r][i]]

\* Series.dropna()
dropna(cells) == SelectSeq(cells, LAMBDA c : c # NaN)

\* app.py: the built-in reference table; only its name column is read by the
\* operations modelled here
DefaultNames ==
  << << "P", "a", "r", "a", "c", "e", "t", "a", "m", "o", "l" >>,
     << "I", "b", "u", "p", "r", "o", "f", "e", "n" >>,
     << "M", "e", "t", "f", "o", "r", "m", "i", "n" >>,
     << "A", "m", "o", "x", "i", "c", "i", "l", "l", "i", "n" >>,
     << "C", "i", "p", "r", "o", "f", "l", "o", "x", "a", "c", "i", "n" >>,
     << "C", "e", "t", "i", "r", "i", "z", "i", "n", "e" >>,
     << "O", "m", "e", "p", "r", "a", "z", "o", "l", "e" >>,
     << "A", "t", "o", "r", "v", "a", "s", "t", "a", "t", "i", "n" >>,
     << "A", "z", "i", "t", "h", "r", "o", "m", "y", "c", "i", "n" >>,
     << "A", "m", "l", "o", "d", "i", "p", "i", "n", "e" >>,
     << "A", "s", "h", "w", "a", "g", "a", "n", "d", "h", "a" >>,
     << "T", "r", "i", "p", "h", "a", "l", "a" >>,
     << "C", "h", "y", "a", "w", "a", "n", "p", "r", "a", "s", "h" >> >>

load_default_reference ==
  Frame(<< "Medicine Name" >>, [i \in 1..Len(DefaultNames) |-> << DefaultNames[i] >>])

\* Home.py: the built-in table
load_medicine_data ==
  << << "P", "a", "r", "a", "c", "e", "t", "a", "m", "o", "l" >>,
     << "A", "m", "o", "x", "i", "c", "i", "l", "l", "i", "n" >>,
     << "C", "i", "p", "r", "o", "f", "l", "o", "x", "a", "c", "i", "n" >>,
     << "M", "e", "t", "f", "o", "r", "m", "i", "n" >>,
     << "I", "b", "u", "p", "r", "o", "f", "e", "n" >>,
     << "A", "z", "i", "t", "h", "r", "o", "m", "y", "c", "i", "n" >>,
     << "C", "e", "t", "i", "r", "i", "z", "i", "n", "e" >>,
     << "O", "m", "e", "p", "r", "a", "z", "o", "l", "e" >>,
     << "A", "t", "o", "r", "v", "a", "s", "t", "a", "t", "i", "n" >>,
     << "A", "m", "l", "o", "d", "i", "p", "i", "n", "e" >> >>

\* lowercase + strip, for matching
normalize_series(s) == [i \in 1..Len(s) |-> str_lower(str_strip(cell_str(s[i])))]


(***************************************************************************)
(* app.py                                                                  *)
(***************************************************************************)

\* Optional values: << >> is None, << v >> is the value v.
None == << >>

Some(v) == << v >>

\* st.session_state["reference_df"] or the built-in table
get_reference_df(ref) == IF ref # None THEN ref[1] ELSE load_default_reference

HistoryColumns == << "Time", "Entered", "Closest Match", "Match Score", "Status" >>

\* The "Closest Match" of a result without a match: the one-character string
\* holding an em dash.
Sentinel == << "EM DASH" >>

\* The three status texts (the source prefixes each with an emoji).
Correct == "Correct"

PossibleMismatch == "Possible Mismatch"

Mismatch == "Mismatch"

\* entries taken from the selected column of the uploaded file
uploaded_entries(df_uploaded, selected_col, use_as_reference) ==
  IF df_uploaded # None /\ selected_col # None /\ ~use_as_reference
  THEN LET cells == dropna(column(df_uploaded[1], selected_col[1]))
       IN  [i \in 1..Len(cells) |-> str_strip(cell_str(cells[i]))]
  ELSE << >>

\* entries taken from the text area
typed_entries(user_input) ==
  IF str_strip(user_input) # << >>
  THEN LET parts == str_split(user_input, ",")
           kept  == SelectSeq(parts, LAMBDA part : str_strip(part) # << >>)
       IN  [i \in 1..Len(kept) |-> str_strip(kept[i])]
  ELSE << >>

\* entered_list before the deduplication: the non-empty entries
clean_entries(df_uploaded, selected_col, use_as_reference, user_input) ==
  SelectSeq(uploaded_entries(df_uploaded, selected_col, use_as_reference)
              \o typed_entries(user_input),
            LAMBDA e : e # << >>)

\* dedupe with the seen set keyed on the names as written
RECURSIVE dedupe_exact_from(_, _)
dedupe_exact_from(l, seen) ==
  IF l = << >> THEN << >>
  ELSE IF Head(l) \in seen THEN dedupe_exact_from(Tail(l), seen)
  ELSE << Head(l) >> \o dedupe_exact_from(Tail(l), seen \cup {Head(l)})

dedupe_exact(l) == dedupe_exact_from(l, {})

\* [x for x in l if not (x.lower() in seen or seen.add(x.lower()))]
RECURSIVE dedupe_from(_, _)
dedupe_from(l, seen) ==
  IF l = << >> THEN << >>
  ELSE IF str_lower(Head(l)) \in seen THEN dedupe_from(Tail(l), seen)
  ELSE << Head(l) >> \o dedupe_from(Tail(l), seen \cup {str_lower(Head(l))})

dedupe(l) == dedupe_from(l, {})

\* adopt_reference appending the uploaded names to the built-in table
adopt_reference_merge(df_uploaded, selected_col) ==
  Frame(<< "Medicine Name" >>,
        load_default_reference.rows
          \o [r \in 1..Len(df_uploaded.rows) |-> << column(df_uploaded, selected_col)[r] >>])

\* df_uploaded.rename(columns={selected_col: "Medicine Name"}), then the
\* insertion of a "Medicine Name" column when none carries the label
adopt_reference(df_uploaded, selected_col) ==
  LET renamed == Frame([i \in 1..Len(df_uploaded.columns) |->
                          IF df_uploaded.columns[i] = selected_col
                          THEN "Medicine Name" ELSE df_uploaded.columns[i]],
                       df_uploaded.rows)
  IN  IF col_positions(renamed, "Medicine Name") = {}
      THEN Frame(<< "Medicine Name" >> \o renamed.columns,
                 [r \in 1..Len(renamed.rows) |->
                    << cell_str(column(df_uploaded, selected_col)[r]) >>
                      \o renamed.rows[r]])
      ELSE renamed

\* ref_names_display without the dropna()
ref_names_display_keepna(ref_df) ==
  LET cells == column(ref_df, "Medicine Name")
  IN  [i \in 1..Len(cells) |-> str_strip(cell_str(cells[i]))]

\* ref_df["Medicine Name"].dropna().astype(str).str.strip()
ref_names_display(ref_df) ==
  LET cells == dropna(column(ref_df, "Medicine Name"))
  IN  [i \in 1..Len(cells) |-> str_strip(cell_str(cells[i]))]

\* process.extractOne(query, choices, scorer): None for no choice, else the
\* choice, its score and its position, of the first choice whose score no
\* later one exceeds
RECURSIVE extract_from(_, _, _, _)
extract_from(query, choices, idx, result) ==
  IF idx > Len(choices) THEN result
  ELSE LET score == fuzz_token_sort_ratio(query, choices[idx])
       IN  IF result = None \/ ScoreLess(result[1].score, score)
           THEN extract_from(query, choices, idx + 1,
                  Some([choice |-> choices[idx], score |-> score, idx |-> idx]))
           ELSE extract_from(query, choices, idx + 1, result)

extractOne(query, choices) == extract_from(query, choices, 1, None)

\* status_of with the first threshold exclusive
status_of_strict(score) ==
  IF ScoreGT(score, 95) THEN "Correct"
  ELSE IF ScoreGE(score, 70) THEN "Possible Mismatch"
  ELSE "Mismatch"

\* the status thresholds
status_of(score) ==
  IF ScoreGE(score, 95) THEN Correct
  ELSE IF ScoreGE(score, 70) THEN PossibleMismatch
  ELSE Mismatch

MatchResult(entered, closest, score, status) ==
  ("Entered" :> entered) @@ ("Closest Match" :> closest)
    @@ ("Match Score" :> score) @@ ("Status" :> status)

\* the result built from what extractOne returned
result_of(med, match, names_display) ==
  IF match # None
  THEN MatchResult(med, names_display[match[1].idx], match[1].score,
                   status_of(match[1].score))
  ELSE MatchResult(med, Sentinel, ZeroScore, Mismatch)

\* one entry of the matching loop
match_one(med, names_display) ==
  result_of(med,
            extractOne(str_lower(str_strip(med)), normalize_series(names_display)),
            names_display)

\* match_entries leaving out the entries without a match
match_entries_skip(entered, names_display) ==
  LET all == [i \in 1..Len(entered) |-> match_one(entered[i], names_display)]
  IN  SelectSeq(all, LAMBDA r : r["Closest Match"] # Sentinel)

\* the matching loop: one result per entered name
match_entries(entered, names_display) ==
  [i \in 1..Len(entered) |-> match_one(entered[i], names_display)]

\* the rows save_history appends: the results stamped with the time, in the
\* column order of the log
history_rows(results_df, time) ==
  [i \in 1..Len(results_df) |->
     << time, results_df[i]["Entered"], results_df[i]["Closest Match"],
        results_df[i]["Match Score"], results_df[i]["Status"] >>]

\* save_history writing the file anew (mode "w")
save_history_overwrite(file, results_df, time) ==
  [file EXCEPT !.rows = history_rows(results_df, time)]

save_history(file, results_df, time) ==
  [file EXCEPT !.rows = @ \o history_rows(results_df, time)]

\* pd.read_csv(HISTORY_FILE): the first line labels the columns
load_history(file) == Frame(file.header, file.rows)


(***************************************************************************)
(* The state of app.py and what one script run reads from the user.        *)
(***************************************************************************)
VARIABLES
  results,        \* st.session_state["results"]: the rows of the last results
  reference_df,   \* st.session_state["reference_df"]: None or a frame
  history_file,   \* history.csv: [header, rows]
  clock,          \* the wall clock: it advances between two saving runs
  raw_list,       \* the last run's entered_list before the deduplication
  entered_list,   \* the last run's entered_list as handed to the matching loop
  adopted,        \* the upload last adopted as reference, or None
  view,           \* what the last script run of app.py rendered
  home_history,   \* Home.py: st.session_state.history
  home_view,      \* what the last script run of Home.py rendered
  arg,            \* the arguments of a function applied on its own, or None
  ret             \* its result, or None

appVars ==
  << results, reference_df, history_file, clock, raw_list, entered_list,
     adopted, view >>

homeVars == << home_history, home_view >>

fnVars == << arg, ret >>

vars == << appVars, homeVars, fnVars >>

\* all sequences over S of length at most n
SeqsUpTo(S, n) == UNION {[1..k -> S] : k \in 0..n}

\* The bound of the model: the rows the log may hold.
MaxHistoryRows == 2

\* the first rows the Search page shows for an empty query
HeadRows == 25

\* what is typed into the text area
TypedTexts ==
  { << >>,
    << "," >>,
    << "a" >>,
    << " ", "a", ",", "B" >> }

\* the uploaded files (read_csv keeps the column labels distinct)
UploadFrames ==
  { Frame(<< "Drug" >>, << >>),
    Frame(<< "Drug" >>, << << << " ", "B" >> >> >>),
    Frame(<< "Drug" >>, << << NaN >> >>),
    Frame(<< "Drug" >>, << << NaN >>, << << " ", "B" >> >> >>),
    Frame(<< "Drug", "Medicine Name" >>, << << << " ", "B" >>, NaN >> >>) }

\* the uploader and the column selector: no file, an empty file (no selector
\* is shown), or a file and the column selected in it
Uploads ==
  {[df |-> None, selected_col |-> None]}
    \cup {[df |-> Some(f), selected_col |-> None] :
            f \in {g \in UploadFrames : frame_empty(g)}}
    \cup UNION {{[df |-> Some(f), selected_col |-> Some(f.columns[i])] :
                   i \in 1..Len(f.columns)} :
                f \in {g \in UploadFrames : ~frame_empty(g)}}

\* what is typed into the search box
SearchQueries == { << >>, << "a" >>, << "b" >> }

\* a log written by an earlier version of the script, whose results carried
\* a "Mismatch" column instead of "Status"
OldHeader == << "Time", "Entered", "Closest Match", "Match Score", "Mismatch" >>

OldRow == << 0, << "A" >>, DefaultNames[1], MkScore(50, 3), "Yes" >>

Rendered(page, outcome, shown) ==
  [page |-> page, outcome |-> outcome, shown |-> shown]

FreshLog == [header |-> HistoryColumns, rows |-> << >>]

\* app.py after its first lines ran: the session state is initialised, and
\* history.csv exists, created now or left by an earlier session
AppInit ==
  /\ results = << >>
  /\ reference_df = None
  /\ history_file \in {FreshLog,
                       [header |-> OldHeader, rows |-> << >>],
                       [header |-> OldHeader, rows |-> << OldRow >>]}
  /\ clock = 0
  /\ raw_list = << >>
  /\ entered_list = << >>
  /\ adopted = None
  /\ view = Rendered("none", "none", << >>)

\* app.py in a fresh directory, not yet used
AppIdle ==
  /\ results = << >>
  /\ reference_df = None
  /\ history_file = FreshLog
  /\ clock = 0
  /\ raw_list = << >>
  /\ entered_list = << >>
  /\ adopted = None
  /\ view = Rendered("none", "none", << >>)

HomeInit ==
  /\ home_history = << >>
  /\ home_view = Rendered("none", "none", << >>)

FnIdle == arg = None /\ ret = None

Init == AppInit /\ HomeInit /\ FnIdle

\* run_outcome without the check for an empty entered list
run_outcome_unchecked(entered, ref_df) ==
  IF col_positions(ref_df, "Medicine Name") = {} THEN "error"
  ELSE IF Cardinality(col_positions(ref_df, "Medicine Name")) > 1 THEN "exception"
  ELSE "results"

\* what a detection run comes to, from the entered list and the reference:
\* the warning for no entry, the error for a reference without a
\* "Medicine Name" column, the exception raised when two columns carry that
\* label (ref_df["Medicine Name"] is then a frame, which has no .str), or
\* the results
run_outcome(entered, ref_df) ==
  IF entered = << >> THEN "warning"
  ELSE IF col_positions(ref_df, "Medicine Name") = {} THEN "error"
  ELSE IF Cardinality(col_positions(ref_df, "Medicine Name")) > 1 THEN "exception"
  ELSE "results"

RunOutcomes == {"warning", "error", "exception", "results"}

\* The Detector page with the button pressed.
DetectorRun ==
  \E up \in Uploads, use_as_reference \in BOOLEAN, user_input \in TypedTexts :
    /\ use_as_reference => up.selected_col # None
    /\ LET raw     == clean_entries(up.df, up.selected_col, use_as_reference, user_input)
           entered == dedupe(raw)
           adopt   == use_as_reference /\ up.df # None /\ up.selected_col # None
           ref     == IF adopt
                      THEN Some(adopt_reference(up.df[1], up.selected_col[1]))
                      ELSE reference_df
           ref_df  == get_reference_df(ref)
           outcome == run_outcome(entered, ref_df)
       IN  /\ raw_list' = raw
           /\ entered_list' = entered
           /\ reference_df' = ref
           /\ adopted' = IF adopt
                         THEN Some([df |-> up.df[1], selected_col |-> up.selected_col[1]])
                         ELSE adopted
           /\ view' = Rendered("Detector", outcome, << >>)
           /\ IF outcome = "results"
              THEN LET results_df == match_entries(entered, ref_names_display(ref_df))
                       now        == clock + 1
                   IN  /\ Len(history_file.rows) + Len(results_df) <= MaxHistoryRows
                       /\ results' = results_df
                       /\ history_file' = save_history(history_file, results_df, now)
                       /\ clock' = now
              ELSE UNCHANGED << results, history_file, clock >>
    /\ UNCHANGED << homeVars, fnVars >>

\* The Detector page without the button pressed: the last results are shown.
DetectorShow ==
  /\ view' = Rendered("Detector",
                      IF results # << >> THEN "last results" ELSE "none", << >>)
  /\ raw_list' = << >> /\ entered_list' = << >>
  /\ UNCHANGED << results, reference_df, history_file, clock, adopted >>
  /\ UNCHANGED << homeVars, fnVars >>

\* Series.str.contains(query, case=False): query occurs in name, case ignored
contains(name, query) ==
  \E i \in 1..(Len(name) - Len(query) + 1) :
    str_lower(SubSeq(name, i, i + Len(query) - 1)) = str_lower(query)

\* the rows of the reference the Search page of app.py shows
search_reference(ref_df, query) ==
  LET names == column(ref_df, "Medicine Name")
  IN  IF query # << >>
      THEN SelectSeq(names, LAMBDA c : contains(cell_str(c), query))
      ELSE SubSeq(names, 1, IF Len(names) < HeadRows THEN Len(names) ELSE HeadRows)

SearchMedicines ==
  \E query \in SearchQueries :
    LET ref_df == get_reference_df(reference_df)
    IN  /\ view' = IF Cardinality(col_positions(ref_df, "Medicine Name")) > 1
                   THEN Rendered("Search Medicines", "exception", << >>)
                   ELSE Rendered("Search Medicines", "table",
                                 search_reference(ref_df, query))
        /\ raw_list' = << >> /\ entered_list' = << >>
        /\ UNCHANGED << results, reference_df, history_file, clock, adopted >>
        /\ UNCHANGED << homeVars, fnVars >>

\* The History page; the filter checkbox is shown for a non-empty log.
History ==
  \E only_mismatch \in BOOLEAN :
    LET hist == load_history(history_file)
    IN  /\ view' = IF frame_empty(hist)
                   THEN Rendered("History", "info", << >>)
                   ELSE IF ~only_mismatch
                   THEN Rendered("History", "table", << >>)
                   ELSE IF col_positions(hist, "Status") = {}
                   THEN Rendered("History", "KeyError", << >>)
                   ELSE Rendered("History", "table and mismatches", << >>)
        /\ frame_empty(hist) => ~only_mismatch
        /\ raw_list' = << >> /\ entered_list' = << >>
        /\ UNCHANGED << results, reference_df, history_file, clock, adopted >>
        /\ UNCHANGED << homeVars, fnVars >>

\* The Analytics page: its history summary.
Analytics ==
  LET hist == load_history(history_file)
  IN  /\ view' = IF frame_empty(hist)
                 THEN Rendered("Analytics", "info", << >>)
                 ELSE IF col_positions(hist, "Status") = {}
                 THEN Rendered("Analytics", "outdated error", << >>)
                 ELSE Rendered("Analytics", "chart", << >>)
      /\ raw_list' = << >> /\ entered_list' = << >>
      /\ UNCHANGED << results, reference_df, history_file, clock, adopted >>
      /\ UNCHANGED << homeVars, fnVars >>

Next ==
  \/ DetectorRun
  \/ DetectorShow
  \/ SearchMedicines
  \/ History
  \/ Analytics

Spec == Init /\ [][Next]_vars

(***************************************************************************)
(* Home.py                                                                 *)
(***************************************************************************)

\* Python's None as the "Closest Match" of a result
PyNone == << "None" >>

\* [str(m).strip().capitalize() for m in medicines_list if str(m).strip()]
home_clean(medicines_list) ==
  LET kept == SelectSeq(medicines_list, LAMBDA m : str_strip(cell_str(m)) # << >>)
  IN  [i \in 1..Len(kept) |-> str_capitalize(str_strip(cell_str(kept[i])))]

\* the best-match loop over the reference names, from best_score = 0
RECURSIVE home_best_from(_, _, _)
home_best_from(med, refs, best) ==
  IF refs = << >> THEN best
  ELSE LET score == fuzz_ratio(str_lower(med), str_lower(Head(refs)))
       IN  home_best_from(med, Tail(refs),
             IF ScoreLess(best.best_score, score)
             THEN [best_match |-> Head(refs), best_score |-> score]
             ELSE best)

home_best(med, refs) ==
  home_best_from(med, refs, [best_match |-> PyNone, best_score |-> ZeroScore])

home_result(med, refs) ==
  LET best == home_best(med, refs)
  IN  ("Entered" :> med) @@ ("Closest Match" :> best.best_match)
        @@ ("Match Score" :> best.best_score)
        @@ ("Mismatch" :> IF ~ScoreGE(best.best_score, 90) THEN "Yes" ELSE "No")

home_results(medicines_list, refs) ==
  [i \in 1..Len(medicines_list) |-> home_result(medicines_list[i], refs)]

\* home_matches keeping the entries that score 60 too
RECURSIVE home_matches_from60(_, _)
home_matches_from60(query, refs) ==
  IF refs = << >> THEN << >>
  ELSE LET score == fuzz_ratio(str_lower(query), str_lower(Head(refs)))
       IN  (IF ScoreGE(score, 60) THEN << << Head(refs), score >> >> ELSE << >>)
             \o home_matches_from60(query, Tail(refs))

\* the reference entries that score above 60 against the query, in
\* reference order
RECURSIVE home_matches(_, _)
home_matches(query, refs) ==
  IF refs = << >> THEN << >>
  ELSE LET score == fuzz_ratio(str_lower(query), str_lower(Head(refs)))
       IN  (IF ScoreGT(score, 60) THEN << << Head(refs), score >> >> ELSE << >>)
             \o home_matches(query, Tail(refs))

\* insertion of m into a list sorted by descending score, after the entries
\* that score the same
RECURSIVE insert_by_score(_, _)
insert_by_score(m, l) ==
  IF l = << >> THEN << m >>
  ELSE IF ScoreLess(Head(l)[2], m[2]) THEN << m >> \o l
  ELSE << Head(l) >> \o insert_by_score(m, Tail(l))

\* sorted(matches, key=lambda x: -x[1]): a stable sort
RECURSIVE sorted_by_score(_)
sorted_by_score(l) ==
  IF l = << >> THEN << >>
  ELSE insert_by_score(l[Len(l)], sorted_by_score(SubSeq(l, 1, Len(l) - 1)))

\* what the Search page of Home.py renders for a non-empty query
home_search(query, refs) ==
  LET matches == home_matches(query, refs)
  IN  IF matches # << >>
      THEN Rendered("Search Medicines", "success", sorted_by_score(matches))
      ELSE Rendered("Search Medicines", "error", << >>)

\* The bound of the Home.py model: the detection runs it keeps.
MaxHomeRuns == 2

\* what the Detector page reads: the first column of an uploaded CSV file,
\* the lines of an uploaded text file, or the pieces of the text area
HomeLists ==
  { << << >> >>,
    << << "q" >> >>,
    << << " ", "i", "B", "U" >> >>,
    << << "q" >>, << "p", "a", "r", "a" >> >>,
    << NaN >> }

\* The Detector page with the button pressed.
HomeDetect ==
  \E raw \in HomeLists :
    LET medicines_list == home_clean(raw)
        result_df      == home_results(medicines_list, load_medicine_data)
    IN  /\ IF result_df = << >>
           \* the bar chart of a frame without columns raises, before the
           \* history is written
           THEN /\ home_view' = Rendered("Detector", "exception", << >>)
                /\ UNCHANGED << home_history, clock >>
           ELSE /\ Len(home_history) < MaxHomeRuns
                /\ home_view' = Rendered("Detector", "results", result_df)
                /\ home_history' =
                     Append(home_history, [time |-> clock + 1, results |-> result_df])
                /\ clock' = clock + 1
        /\ UNCHANGED << results, reference_df, history_file, raw_list,
                        entered_list, adopted, view, fnVars >>

\* what is typed into the search box of Home.py
HomeQueries == { << >>, << "q" >>, << "P", "a", "r", "a", "c", "e" >> }

HomeSearch ==
  \E query \in HomeQueries :
    /\ home_view' = IF query # << >>
                    THEN home_search(query, load_medicine_data)
                    ELSE Rendered("Search Medicines", "none", << >>)
    /\ UNCHANGED << appVars, home_history, fnVars >>

HomeHistory ==
  /\ home_view' = IF home_history # << >>
                  THEN Rendered("History", "records",
                                [i \in 1..Len(home_history) |->
                                   home_history[Len(home_history) + 1 - i]])
                  ELSE Rendered("History", "info", << >>)
  /\ UNCHANGED << appVars, home_history, fnVars >>

\* the number of results of all records whose "Mismatch" is v
RECURSIVE mismatch_count(_, _)
mismatch_count(history, v) ==
  IF history = << >> THEN 0
  ELSE Len(SelectSeq(Head(history).results, LAMBDA r : r["Mismatch"] = v))
         + mismatch_count(Tail(history), v)

HomeAnalytics ==
  /\ home_view' = IF home_history # << >>
                  THEN Rendered("Analytics", "charts",
                                << mismatch_count(home_history, "Yes"),
                                   mismatch_count(home_history, "No") >>)
                  ELSE Rendered("Analytics", "info", << >>)
  /\ UNCHANGED << appVars, home_history, fnVars >>

NextHome ==
  \/ HomeDetect
  \/ HomeSearch
  \/ HomeHistory
  \/ HomeAnalytics

\* Home.py after its first lines ran, beside an app.py not yet used
InitHome == AppIdle /\ HomeInit /\ FnIdle

SpecHome == InitHome /\ [][NextHome]_vars

(***************************************************************************)
(* Functions applied on their own: the initial state draws the arguments,  *)
(* the action applies the function.                                        *)
(***************************************************************************)

\* The scores drawn are the multiples of 1/d up to 100, for d up to ScoreDen.
ScoreDen == 2

Scores ==
  {MkScore(n, d) : n \in 0..(100 * ScoreDen), d \in 1..ScoreDen} \ 
    {sc \in {MkScore(n, d) : n \in 0..(100 * ScoreDen), d \in 1..ScoreDen} :
       ScoreGT(sc, 100)}

\* what extractOne may return for a single choice
Matches ==
  {None} \cup {Some([choice |-> << "a" >>, score |-> sc, idx |-> 1]) : sc \in Scores}

InitStatus ==
  /\ AppIdle /\ HomeInit
  /\ arg \in {Some(pair) : pair \in [1..2 -> Matches]}
  /\ ret = None

\* the body of the matching loop after extractOne returned, for two entries
ApplyResultOf ==
  /\ arg # None /\ ret = None
  /\ ret' = Some([i \in 1..2 |-> result_of(<< "A" >>, arg[1][i], << << "A" >> >>)])
  /\ UNCHANGED << appVars, homeVars, arg >>

SpecStatus == InitStatus /\ [][ApplyResultOf]_vars

\* Bounds of the search functions: the length of the query and of the
\* reference list.
MaxQueryLen == 3

MaxRefs == 3

SearchChars == {"a", "b"}

SearchNames ==
  { << "a", "a", "a", "b", "b", "b", "b" >>,
    << "a", "a", "a", "b" >>,
    << "b", "A", "a", "a" >>,
    << "A", "a", "b" >>,
    << "b", "b" >> }

InitSearch ==
  /\ AppIdle /\ HomeInit
  /\ arg \in {Some([query |-> q, refs |-> r]) :
                q \in SeqsUpTo(SearchChars, MaxQueryLen) \ {<< >>},
                r \in SeqsUpTo(SearchNames, MaxRefs)}
  /\ ret = None

\* the Search page of Home.py over the drawn reference list
ApplyHomeSearch ==
  /\ arg # None /\ ret = None
  /\ ret' = Some([by |-> "Home.py", view |-> home_search(arg[1].query, arg[1].refs)])
  /\ UNCHANGED << appVars, homeVars, arg >>

\* the Search page of app.py over the drawn reference list
ApplyAppSearch ==
  /\ arg # None /\ ret = None
  /\ ret' = Some([by |-> "app.py",
                  view |-> Rendered("Search Medicines", "table",
                             search_reference(
                               Frame(<< "Medicine Name" >>,
                                     [i \in 1..Len(arg[1].refs) |-> << arg[1].refs[i] >>]),
                               arg[1].query))])
  /\ UNCHANGED << appVars, homeVars, arg >>

NextSearch ==
  \/ ApplyHomeSearch
  \/ ApplyAppSearch

SpecSearch == InitSearch /\ [][NextSearch]_vars

\* Bounds of the entered list: the length of the typed text and the rows of
\* the uploaded column.
MaxTypedLen == 4

MaxUploadRows == 2

EnteredChars == {"a", "A", " ", ","}

EnteredCells == {NaN, << "a" >>, << " ", "A" >>, << " " >>}

EnteredUploads ==
  {[df |-> None, selected_col |-> None]}
    \cup {[df |-> Some(Frame(<< "Drug" >>, [i \in 1..Len(cells) |-> << cells[i] >>])),
           selected_col |-> IF cells = << >> THEN None ELSE Some("Drug")] :
            cells \in SeqsUpTo(EnteredCells, MaxUploadRows)}

InitEntered ==
  /\ AppIdle /\ HomeInit
  /\ arg \in {Some([up |-> up, use_as_reference |-> use, user_input |-> text]) :
                up \in EnteredUploads, use \in BOOLEAN,
                text \in SeqsUpTo(EnteredChars, MaxTypedLen)}
  /\ arg[1].use_as_reference => arg[1].up.selected_col # None
  /\ ret = None

\* the first lines of the run handler: the entered list is built, cleaned
\* and deduplicated
ApplyBuildEntered ==
  /\ arg # None /\ ret = None
  /\ LET raw == clean_entries(arg[1].up.df, arg[1].up.selected_col,
                              arg[1].use_as_reference, arg[1].user_input)
     IN  ret' = Some([raw_list |-> raw, entered_list |-> dedupe(raw)])
  /\ UNCHANGED << appVars, homeVars, arg >>

SpecEntered == InitEntered /\ [][ApplyBuildEntered]_vars

(***************************************************************************)
(* The properties.                                                         *)
(***************************************************************************)

\* a detection run of app.py has just produced results
RanWithResults == view.page = "Detector" /\ view.outcome = "results"

\* the status the thresholds give a score
ThresholdStatus(sc) ==
  IF sc.num >= 95 * sc.den THEN "Correct"
  ELSE IF sc.num >= 70 * sc.den /\ sc.num < 95 * sc.den THEN "Possible Mismatch"
  ELSE "Mismatch"

\* C1: the status of every result of the matching loop is decided by its
\* score alone: at least 95 is Correct, from 70 up to but not 95 is Possible
\* Mismatch, below 70 is Mismatch (the result without a match scores 0 and
\* is a Mismatch), and two results with the same score carry the same status.
C1_StatusByThresholds ==
  ret # None =>
    /\ \A i \in 1..2 :
         /\ ret[1][i]["Status"] = ThresholdStatus(ret[1][i]["Match Score"])
         /\ ret[1][i]["Match Score"] =
              IF arg[1][i] = None THEN ZeroScore ELSE arg[1][i][1].score
    /\ ret[1][1]["Match Score"] = ret[1][2]["Match Score"]
         => ret[1][1]["Status"] = ret[1][2]["Status"]

\* a result scoring exactly 95 beside one scoring 94.5
C1_Witness ==
  /\ ret # None
  /\ ret[1][1]["Match Score"] = MkScore(95, 1) /\ ret[1][1]["Status"] = "Correct"
  /\ ret[1][2]["Match Score"] = MkScore(189, 2)
  /\ ret[1][2]["Status"] = "Possible Mismatch"

\* the position of the first reference name with the highest ratio to med
FirstHighest(med, refs) ==
  CHOOSE i \in 1..Len(refs) :
    LET si == fuzz_ratio(str_lower(med), str_lower(refs[i]))
    IN  \A j \in 1..Len(refs) :
          LET sj == fuzz_ratio(str_lower(med), str_lower(refs[j]))
          IN  /\ ~ScoreLess(si, sj)
              /\ j < i => ScoreLess(sj, si)

\* C2: the closest match a detection run of Home.py reports for an entered
\* name is the reference entry with the highest score, the first of them in
\* reference order when several share it, also when every entry scores 0.
C2_ClosestIsFirstHighest ==
  (home_view.page = "Detector" /\ home_view.outcome = "results") =>
    \A i \in 1..Len(home_view.shown) :
      home_view.shown[i]["Closest Match"] =
        load_medicine_data[FirstHighest(home_view.shown[i]["Entered"],
                                        load_medicine_data)]

\* the reference in force has one "Medicine Name" column and no name in it
ReferenceEmpty ==
  LET ref_df == get_reference_df(reference_df)
  IN  /\ Cardinality(col_positions(ref_df, "Medicine Name")) = 1
      /\ \A r \in 1..Len(ref_df.rows) : column(ref_df, "Medicine Name")[r] = NaN

\* C3: a detection run with entered names and an empty reference name list
\* does not fail, and its results are, name by name, the sentinel as Closest
\* Match, the score 0 and the status Mismatch.
C3_EmptyReferenceSentinel ==
  (/\ view.page = "Detector"
   /\ view.outcome \in RunOutcomes \ {"warning"}
   /\ ReferenceEmpty) =>
    /\ view.outcome = "results"
    /\ results = [i \in 1..Len(entered_list) |->
                    MatchResult(entered_list[i], Sentinel, ZeroScore, "Mismatch")]

\* two names were matched against a reference whose names are all missing
C3_Witness ==
  /\ RanWithResults /\ ReferenceEmpty
  /\ Len(entered_list) = 2 /\ Len(results) = 2

\* C4: a detection run yields one result per entered name, in the order of
\* the entered list, the i-th result carrying the i-th entered name.
C4_OneResultPerEntry ==
  RanWithResults =>
    /\ Len(results) = Len(entered_list)
    /\ \A i \in 1..Len(entered_list) : results[i]["Entered"] = entered_list[i]

\* two names were matched, one with a match that scores and one without
C4_Witness ==
  /\ RanWithResults
  /\ Len(entered_list) = 2
  /\ results[1]["Status"] = "Correct"
  /\ results[2]["Match Score"] = ZeroScore

\* C5: the log only grows at its end: every step keeps the header and the
\* rows already there, a detection run that produces results appends one row
\* per result, in result order, holding Time, Entered, Closest Match, Match
\* Score and Status, and no other step changes the log.
C5_HistoryAppendOnly ==
  [][LET old == history_file.rows
         new == history_file'.rows
     IN  /\ history_file'.header = history_file.header
         /\ Len(new) >= Len(old)
         /\ SubSeq(new, 1, Len(old)) = old
         /\ IF view'.page = "Detector" /\ view'.outcome = "results"
            THEN /\ Len(new) = Len(old) + Len(results')
                 /\ \A i \in 1..Len(results') :
                      new[Len(old) + i] =
                        << clock', results'[i]["Entered"], results'[i]["Closest Match"],
                           results'[i]["Match Score"], results'[i]["Status"] >>
            ELSE new = old]_vars

\* the log holds the rows of two detection runs
C5_Witness ==
  /\ history_file.header = HistoryColumns
  /\ Len(history_file.rows) = 2
  /\ history_file.rows[1][1] # history_file.rows[2][1]

\* C6: a detection run that is left with no entered name only warns: the
\* log and the stored last results are as before the run.
C6_NoEntryNoOp ==
  [][(/\ view'.page = "Detector"
      /\ view'.outcome \in RunOutcomes
      /\ entered_list' = << >>) =>
       (/\ view'.outcome = "warning"
        /\ history_file' = history_file
        /\ results' = results)]_vars

\* a run warned while earlier results are stored and an upload was adopted
C6_Witness ==
  /\ view.page = "Detector" /\ view.outcome = "warning"
  /\ results # << >>
  /\ reference_df # None

\* C7: a page that reads a non-empty log without a Status column ends in the
\* outdated-log error.
C7_OutdatedLogSurfaced ==
  LET hist == load_history(history_file)
  IN  (/\ view.page \in {"History", "Analytics"}
       /\ ~frame_empty(hist)
       /\ col_positions(hist, "Status") = {}) =>
        view.outcome = "outdated error"

\* the positions of l before which no entry has the same lowercase form
FirstOccurrences(l) ==
  {i \in 1..Len(l) : \A j \in 1..(i - 1) : str_lower(l[j]) # str_lower(l[i])}

\* C8: the entered list handed to the matcher holds no two names equal when
\* lowercased, holds every cleaned name in some casing, and is the cleaned
\* list cut down to the first occurrence of each lowercase form, in the
\* order of the cleaned list, the uploaded entries before the typed ones.
C8_DedupeFirstSeen ==
  ret # None =>
    LET raw     == ret[1].raw_list
        entered == ret[1].entered_list
        up      == arg[1].up
        upl     == IF up.selected_col # None /\ ~arg[1].use_as_reference
                   THEN {str_strip(c) :
                           c \in {up.df[1].rows[r][1] : r \in 1..Len(up.df[1].rows)} \ {NaN}}
                        \ {<< >>}
                   ELSE {}
    IN  /\ \A i, j \in 1..Len(entered) :
             i # j => str_lower(entered[i]) # str_lower(entered[j])
        /\ \A i \in 1..Len(raw) :
             \E j \in 1..Len(entered) : str_lower(entered[j]) = str_lower(raw[i])
        /\ Len(entered) = Cardinality(FirstOccurrences(raw))
        /\ \A k \in 1..Len(entered) :
             \E i \in FirstOccurrences(raw) :
               /\ entered[k] = raw[i]
               /\ Cardinality({j \in FirstOccurrences(raw) : j < i}) = k - 1
        /\ \A i, j \in 1..Len(entered) :
             (/\ str_lower(entered[i]) \in {str_lower(u) : u \in upl}
              /\ str_lower(entered[j]) \notin {str_lower(u) : u \in upl}) => i < j
        /\ \A u \in upl : \E i \in 1..Len(raw) : raw[i] = u

\* an uploaded name, then a typed name equal to it but for the case, then
\* another typed name
C8_Witness ==
  /\ ret # None
  /\ arg[1].up.df # None
  /\ ret[1].raw_list = << << "A" >>, << "a" >>, << "a", "a" >> >>
  /\ ret[1].entered_list = << << "A" >>, << "a", "a" >> >>

\* the frame the model keeps for the upload last adopted
AdoptedColumn == column(adopted[1].df, adopted[1].selected_col)

\* the names the reference in force should offer: the built-in names, or the
\* present, stripped names of the adopted column
ExpectedNames ==
  IF adopted = None THEN {DefaultNames[i] : i \in 1..Len(DefaultNames)}
  ELSE {str_strip(c) : c \in {AdoptedColumn[r] : r \in 1..Len(AdoptedColumn)} \ {NaN}}

\* C9: the reference is the built-in table as long as no upload was adopted,
\* and afterwards the upload last adopted, its selected column labelled
\* "Medicine Name" and nothing added to its rows; the closest matches of a
\* detection run are names of that reference.
C9_ReferenceIsLastAdopted ==
  /\ (adopted = None) <=> (reference_df = None)
  /\ adopted # None =>
       LET f == reference_df[1]
       IN  /\ f.rows = adopted[1].df.rows
           /\ \A i \in 1..Len(f.columns) :
                f.columns[i] = IF adopted[1].df.columns[i] = adopted[1].selected_col
                               THEN "Medicine Name" ELSE adopted[1].df.columns[i]
           /\ Cardinality(col_positions(f, "Medicine Name")) = 1
                => column(f, "Medicine Name") = AdoptedColumn
  /\ RanWithResults =>
       \A i \in 1..Len(results) :
         results[i]["Closest Match"] \in
           (IF ExpectedNames = {} THEN {Sentinel} ELSE ExpectedNames)

\* a run matched against an adopted upload after a run against the built-in
\* table
C9_Witness ==
  /\ RanWithResults
  /\ adopted # None
  /\ Len(history_file.rows) = 2
  /\ history_file.rows[1][3] \in {DefaultNames[i] : i \in 1..Len(DefaultNames)}
  /\ history_file.rows[2][3] = << "B" >>

\* the positions of the reference entries scoring above 60 against the query
Above60(query, refs) ==
  {i \in 1..Len(refs) : ScoreGT(fuzz_ratio(str_lower(query), str_lower(refs[i])), 60)}

\* entry i is listed before entry j: it scores higher, or the same and comes
\* first in the reference
ListedBefore(query, refs, i, j) ==
  LET si == fuzz_ratio(str_lower(query), str_lower(refs[i]))
      sj == fuzz_ratio(str_lower(query), str_lower(refs[j]))
  IN  ScoreLess(sj, si) \/ (si = sj /\ i < j)

\* the names a fuzzy search lists
FuzzyListing(query, refs) ==
  [k \in 1..Cardinality(Above60(query, refs)) |->
     refs[CHOOSE i \in Above60(query, refs) :
            Cardinality({j \in Above60(query, refs) : ListedBefore(query, refs, j, i)})
              = k - 1]]

\* the names a search page lists
ListedNames(r) ==
  IF r.by = "Home.py"
  THEN [k \in 1..Len(r.view.shown) |-> r.view.shown[k][1]]
  ELSE r.view.shown

====
